---- MODULE Spec2Model ----
(***************************************************************************)
(* PerceptTools: the session sanitizer, the session-oriented titration     *)
(* script, the trend-log analyzer (aDBS_analyzer) and the two outlier      *)
(* filters, as state machines over small JSON documents.                   *)
(*                                                                         *)
(* Numbers.  A float cell that may be missing is a sequence: <<>> is the   *)
(* missing-value sentinel (numpy nan / pandas NaN) and <<v>> the number v. *)
(* All inputs are integers; medians, quartiles and fences are kept as      *)
(* exact integers times a fixed scale (x2, x4, x8), so every comparison    *)
(* the code makes in floating point is made here exactly.                  *)
(***************************************************************************)
EXTENDS Integers, Sequences, FiniteSets, TLC

\* ------------------------------------------------------------------ bounds
\* longest value series handed to a filter
MaxLen == 4
\* values of a bounded series are 0..MaxVal
MaxVal == 3
\* how often a filter is applied to its own output
MaxPasses == 2
\* BrainSenseLfp sessions of a bounded document
MaxSessions == 3
\* LfpData samples of a bounded session
MaxSamples == 4
\* trend-log entries of one hemisphere
MaxRecords == 3
\* DateTime of a trend-log entry, in hours, is 0..MaxTime
MaxTime == 2
\* LFP of a trend-log entry is 0..MaxLfp
MaxLfp == 1
\* the time filter is 0..MaxHours hours
MaxHours == 1
\* groups of Groups.Final
MaxGroups == 2
\* SensingChannel entries of a group
MaxChannels == 1
\* nodes (mappings, sequences, scalars) of a bounded GroupHistory list
MaxNodes == 3

\* ------------------------------------------------------- program constants
\* remove_outliers(data, threshold=3)
Threshold == 3
\* 1.4826 = ZNum / ZDen
ZNum == 14826
ZDen == 10000
\* mad = 1e-6 = 1 / EpsDen
EpsDen == 1000000

\* ------------------------------------------------------------------ helpers
NaN == <<>>
Num(v) == <<v>>
IsNaN(x) == x = NaN
Abs(x) == IF x < 0 THEN -x ELSE x
CeilDiv(a, b) == (a + b - 1) \div b
Range(s) == {s[k] : k \in 1..Len(s)}
Opt(S) == {NaN} \cup {Num(v) : v \in S}

RECURSIVE SeqsUpTo(_, _)
SeqsUpTo(S, n) ==
  IF n = 0 THEN {<<>>}
  ELSE LET prev == SeqsUpTo(S, n - 1)
       IN prev \cup {Append(s, x) : s \in {p \in prev : Len(p) = n - 1}, x \in S}

\* the non-missing numbers of a column, in column order (nan-aware reductions
\* of numpy and pandas skip the missing cells)
RECURSIVE DropNaN(_)
DropNaN(col) ==
  IF col = <<>> THEN <<>>
  ELSE IF IsNaN(Head(col)) THEN DropNaN(Tail(col))
       ELSE <<Head(col)[1]>> \o DropNaN(Tail(col))

\* ascending sort of a sequence of integers: position k holds the value with
\* fewer than k values below it and at least k values not above it
Sorted(s) ==
  [k \in 1..Len(s) |->
     CHOOSE x \in Range(s) :
       /\ Cardinality({j \in 1..Len(s) : s[j] < x}) < k
       /\ k <= Cardinality({j \in 1..Len(s) : s[j] <= x})]

\* np.nanmedian of a non-empty list of numbers, times 2
Median2(nums) ==
  LET s == Sorted(nums)
      n == Len(s)
  IN IF n % 2 = 1 THEN 2 * s[(n + 1) \div 2]
     ELSE s[n \div 2] + s[n \div 2 + 1]

\* ------------------------------------------- PerceptSessions.remove_outliers
\* (a comparison without the mad == 0 replacement: z is inf or nan)
ZNoEpsilonGuard(dev2, mad4) ==
  mad4 # 0 /\ 2 * ZDen * dev2 < Threshold * ZNum * mad4

\* abs(z) < threshold for one value, z = (value - median) / (1.4826 * mad);
\* dev2 = 2 * |value - median|, mad4 = 4 * mad; mad == 0 is replaced by 1e-6
ZBelowThreshold(dev2, mad4) ==
  IF mad4 = 0
  THEN dev2 * ZDen < CeilDiv(2 * Threshold * ZNum, EpsDen)
  ELSE 2 * ZDen * dev2 < Threshold * ZNum * mad4

\* The non-missing numbers, the median and the mad are values once computed:
\* each is the argument of a local function, so that the filter reads them and
\* does not compute them again.
remove_outliers(data) ==
  LET Masked[median2 \in Int, mad4 \in Int] ==
        [k \in 1..Len(data) |->
           IF IsNaN(data[k]) THEN NaN
           ELSE IF ZBelowThreshold(Abs(2 * data[k][1] - median2), mad4)
                THEN data[k] ELSE NaN]
      AroundMedian[nums \in Seq(Int), median2 \in Int] ==
        Masked[median2,
               Median2([k \in 1..Len(nums) |-> Abs(2 * nums[k] - median2)])]
      OfNumbers[nums \in Seq(Int)] ==
        IF nums = <<>>
        THEN [k \in 1..Len(data) |-> NaN]   \* median is nan: every z is nan
        ELSE AroundMedian[nums, Median2(nums)]
  IN OfNumbers[DropNaN(data)]

\* ---------------------------------------------- aDBS_analyzer.remove_outliers
\* A data frame is a sequence of rows [DateTime, LFP, Amplitude]; LFP is a cell.
Column(df) == [k \in 1..Len(df) |-> df[k].LFP]

\* Series.quantile(num/4), linear interpolation, of a non-empty list, times 4
Quantile4(nums, num) ==
  LET s == Sorted(nums)
      h == (Len(s) - 1) * num
      lo == h \div 4
      r == h % 4
  IN IF r = 0 THEN 4 * s[lo + 1]
     ELSE 4 * s[lo + 1] + r * (s[lo + 2] - s[lo + 1])

\* (fences that exclude their own bounds)
InFenceStrict(v, q1, q3) ==
  /\ 8 * v > 2 * q1 - 3 * (q3 - q1)
  /\ 8 * v < 2 * q3 + 3 * (q3 - q1)

\* lower_bound <= value <= upper_bound, all times 8
InFence(v, q1, q3) ==
  /\ 8 * v >= 2 * q1 - 3 * (q3 - q1)
  /\ 8 * v <= 2 * q3 + 3 * (q3 - q1)

aDBS_remove_outliers(df) ==
  LET nums == DropNaN(Column(df))
  IN IF nums = <<>>
     THEN <<>>                              \* quantiles are NaN: no row compares true
     ELSE LET Q1 == Quantile4(nums, 1)
              Q3 == Quantile4(nums, 3)
              Keep(row) == ~IsNaN(row.LFP) /\ InFence(row.LFP[1], Q1, Q3)
          IN SelectSeq(df, Keep)

\* --------------------------------------- PerceptSessions.remove_long_columns
\* A JSON tree: a scalar, a sequence of trees, or a mapping, whose keys are kept
\* in document order beside their values (Python dicts keep insertion order).
Scalar(v) == [kind |-> "scalar", val |-> v, keys |-> <<>>, items |-> <<>>]
List(items) == [kind |-> "list", val |-> 0, keys |-> <<>>, items |-> items]
Dict(keys, items) == [kind |-> "dict", val |-> 0, keys |-> keys, items |-> items]

exclude_keys == {"SignalFrequencies", "SignalPsdValues"}

RECURSIVE remove_long_columns(_)
RECURSIVE CleanItems(_, _)
\* the dict comprehension: the (k, v) pairs with k not excluded, v sanitized
CleanItems(keys, items) ==
  IF keys = <<>> THEN [keys |-> <<>>, items |-> <<>>]
  ELSE LET rest == CleanItems(Tail(keys), Tail(items))
       IN IF Head(keys) \in exclude_keys THEN rest
          ELSE [keys |-> <<Head(keys)>> \o rest.keys,
                items |-> <<remove_long_columns(Head(items))>> \o rest.items]

\* (a sanitizer that does not descend into sequences)
CleanListShallow(items) == items

\* the list comprehension: every item sanitized, in order
CleanList(items) == [k \in 1..Len(items) |-> remove_long_columns(items[k])]

remove_long_columns(obj) ==
  IF obj.kind = "dict"
  THEN LET c == CleanItems(obj.keys, obj.items) IN Dict(c.keys, c.items)
  ELSE IF obj.kind = "list" THEN List(CleanList(obj.items))
  ELSE obj

\* ------------------------------------------------------- bounded JSON trees
JsonKeys == {"a", "b"} \cup exclude_keys
JsonScalars == {1, 2}

\* sequences of n distinct keys
RECURSIVE KeySeqs(_)
KeySeqs(n) ==
  IF n = 0 THEN {<<>>}
  ELSE UNION {{Append(ks, k) : k \in JsonKeys \ Range(ks)} : ks \in KeySeqs(n - 1)}

\* trees of exactly n nodes, and sequences of trees of n nodes in all
RECURSIVE TreesOfSize(_)
RECURSIVE ForestsOfSize(_)
ForestsOfSize(n) ==
  IF n = 0 THEN {<<>>}
  ELSE UNION {{<<t>> \o f : t \in TreesOfSize(k), f \in ForestsOfSize(n - k)} :
              k \in 1..n}

TreesOfSize(n) ==
  LET below == ForestsOfSize(n - 1)
  IN (IF n = 1 THEN {Scalar(v) : v \in JsonScalars} ELSE {})
     \cup {List(f) : f \in below}
     \cup UNION {{Dict(ks, f) : ks \in KeySeqs(Len(f))} : f \in below}

\* ================================================================ state
VARIABLES
  strategy,          \* filters: the outlier filter under test, "mad" or "iqr"
  series,            \* filters: the value column handed to the filter
  passes,            \* filters: the outputs of successive applications of the filter
  GroupHistory,      \* sanitizer: data.get("GroupHistory", []) of the upload
  sessions_cleaned,  \* sanitizer: the cleaned sessions appended so far
  san_pc,            \* sanitizer: "idle", "loop" or "shown"
  brain_sense_lfp_data,  \* titration: data.get('BrainSenseLfp', [])
  pc,                \* titration: position of the script
  i,                 \* titration: enumerate() index of the session at hand
  timestamps,        \* titration: the lists of the session at hand
  left_lfp_values,
  right_lfp_values,
  left_amp_values,
  right_amp_values,
  left_lfp_cleaned,
  right_lfp_cleaned,
  timestamps_in_seconds,
  saved,             \* titration: session numbers whose PNG and SVG were written
  printed,           \* titration: session numbers reported as skipped
  error,             \* titration: the exception that ended the script, or "none"
  data,              \* trend: the loaded document (trend logs and Groups.Final)
  time_filter_hours, \* trend: what get_time_filter returned
  main_pc,           \* trend: position of main()
  hemisphere,        \* trend: the hemisphere of the extraction at hand
  step,              \* trend: position inside extract_lfp_amplitude_data
  df_sorted,         \* trend: df after sort_values and reset_index
  df_windowed,       \* trend: df after the time filtering
  df_left,
  df_right,
  thresholds_left,   \* trend: (upper, lower) returned for Left
  thresholds_right,
  trend_error        \* trend: the exception that ended main(), or "none"

filterVars == <<strategy, series, passes>>
sanVars == <<GroupHistory, sessions_cleaned, san_pc>>
listVars == <<timestamps, left_lfp_values, right_lfp_values, left_amp_values,
              right_amp_values>>
cleanedVars == <<left_lfp_cleaned, right_lfp_cleaned>>
titVars == <<brain_sense_lfp_data, pc, i, timestamps, left_lfp_values,
             right_lfp_values, left_amp_values, right_amp_values,
             left_lfp_cleaned, right_lfp_cleaned, timestamps_in_seconds,
             saved, printed, error>>
trendVars == <<data, time_filter_hours, main_pc, hemisphere, step, df_sorted,
               df_windowed, df_left, df_right, thresholds_left,
               thresholds_right, trend_error>>
vars == <<strategy, series, passes, GroupHistory, sessions_cleaned, san_pc,
          brain_sense_lfp_data, pc, i, timestamps, left_lfp_values,
          right_lfp_values, left_amp_values, right_amp_values,
          left_lfp_cleaned, right_lfp_cleaned, timestamps_in_seconds,
          saved, printed, error,
          data, time_filter_hours, main_pc, hemisphere, step, df_sorted,
          df_windowed, df_left, df_right, thresholds_left,
          thresholds_right, trend_error>>

NoLists ==
  /\ timestamps = <<>>
  /\ left_lfp_values = <<>>
  /\ right_lfp_values = <<>>
  /\ left_amp_values = <<>>
  /\ right_amp_values = <<>>
  /\ left_lfp_cleaned = <<>>
  /\ right_lfp_cleaned = <<>>
  /\ timestamps_in_seconds = <<>>

TitIdle ==
  /\ brain_sense_lfp_data = <<>>
  /\ pc = "idle"
  /\ i = 0
  /\ NoLists
  /\ saved = <<>>
  /\ printed = <<>>
  /\ error = "none"

NoLogs == [present |-> FALSE, buckets |-> <<>>]
None2 == <<NaN, NaN>>

TrendFresh ==
  /\ hemisphere = "Left"
  /\ step = "build"
  /\ df_sorted = <<>>
  /\ df_windowed = <<>>
  /\ df_left = <<>>
  /\ df_right = <<>>
  /\ thresholds_left = None2
  /\ thresholds_right = None2
  /\ trend_error = "none"

TrendIdle ==
  /\ data = [Left |-> NoLogs, Right |-> NoLogs, Final |-> <<>>]
  /\ time_filter_hours = 0
  /\ main_pc = "idle"
  /\ TrendFresh

FilterIdle == strategy = "none" /\ series = <<>> /\ passes = <<>>
SanIdle == GroupHistory = <<>> /\ sessions_cleaned = <<>> /\ san_pc = "idle"

\* --------------------------------- PerceptSessions.extract_sessions_from_json
\* deeper sessions: excluded keys at the top, under a mapping, and inside
\* mappings that sit in a sequence nested in a mapping
DeepSession ==
  Dict(<<"SignalPsdValues", "b", "a", "SignalFrequencies">>,
       << List(<<Scalar(1), Scalar(2)>>),
          Dict(<<"SignalFrequencies", "b">>, <<List(<<Scalar(2)>>), Scalar(2)>>),
          List(<< Dict(<<"b", "SignalPsdValues", "a">>,
                       <<Scalar(1), List(<<Scalar(1)>>), Scalar(2)>>),
                  Scalar(2),
                  List(<<Dict(<<"SignalFrequencies">>, <<Scalar(1)>>), Scalar(1)>>) >>),
          Scalar(1) >>)

ExampleHistories ==
  { <<DeepSession>>,
    <<Scalar(1), DeepSession, List(<<DeepSession, Scalar(2)>>)>> }

\* every GroupHistory list of at most MaxNodes nodes, and the deeper examples;
\* a document without the key reads as the empty list
GroupHistoryInputs ==
  UNION {ForestsOfSize(n) : n \in 0..MaxNodes} \cup ExampleHistories

SanInit ==
  /\ GroupHistory \in GroupHistoryInputs
  /\ sessions_cleaned = <<>>
  /\ san_pc = "loop"
  /\ FilterIdle
  /\ TitIdle
  /\ TrendIdle

\* one iteration of: for session in data.get("GroupHistory", [])
CleanSession ==
  /\ san_pc = "loop"
  /\ Len(sessions_cleaned) < Len(GroupHistory)
  /\ sessions_cleaned' =
       Append(sessions_cleaned,
              remove_long_columns(GroupHistory[Len(sessions_cleaned) + 1]))
  /\ UNCHANGED <<GroupHistory, san_pc>>
  /\ UNCHANGED filterVars
  /\ UNCHANGED titVars
  /\ UNCHANGED trendVars

\* the loop is over: the cleaned list is dumped, displayed and offered for download
ShowCleaned ==
  /\ san_pc = "loop"
  /\ Len(sessions_cleaned) = Len(GroupHistory)
  /\ san_pc' = "shown"
  /\ UNCHANGED <<GroupHistory, sessions_cleaned>>
  /\ UNCHANGED filterVars
  /\ UNCHANGED titVars
  /\ UNCHANGED trendVars

SanNext == CleanSession \/ ShowCleaned

SpecSanitize == SanInit /\ [][SanNext]_vars

\* ------------------------------------------------ the two filters, applied
\* the spec's own examples, beyond the bounded value range, a series the IQR
\* filter shortens twice, and a lone value
ExampleSeries ==
  { <<Num(1), Num(2), Num(3), Num(100), Num(4), Num(5)>>,
    <<Num(1), Num(2), Num(3), Num(4), Num(5), Num(100)>>,
    <<Num(0), Num(0), Num(0), Num(1), Num(3)>>,
    <<Num(5)>> }

SeriesInputs == SeqsUpTo(Opt(0..MaxVal), MaxLen) \cup ExampleSeries

\* the frame whose LFP column is col; DateTime and Amplitude identify the row
Frame(col) ==
  [k \in 1..Len(col) |-> [DateTime |-> k, LFP |-> col[k], Amplitude |-> 10 + k]]

\* what the p-th application of the filter is applied to
PassInput(p) ==
  IF p > 1 THEN passes[p - 1]
  ELSE IF strategy = "mad" THEN series ELSE Frame(series)

FilterInit ==
  /\ strategy \in {"mad", "iqr"}
  /\ series \in SeriesInputs
  /\ passes = <<>>
  /\ SanIdle
  /\ TitIdle
  /\ TrendIdle

ApplyMad ==
  /\ strategy = "mad"
  /\ Len(passes) < MaxPasses
  /\ passes' = Append(passes, remove_outliers(PassInput(Len(passes) + 1)))
  /\ UNCHANGED <<strategy, series>>
  /\ UNCHANGED sanVars
  /\ UNCHANGED titVars
  /\ UNCHANGED trendVars

ApplyIqr ==
  /\ strategy = "iqr"
  /\ Len(passes) < MaxPasses
  /\ passes' = Append(passes, aDBS_remove_outliers(PassInput(Len(passes) + 1)))
  /\ UNCHANGED <<strategy, series>>
  /\ UNCHANGED sanVars
  /\ UNCHANGED titVars
  /\ UNCHANGED trendVars

FilterNext == ApplyMad \/ ApplyIqr

SpecFilters == FilterInit /\ [][FilterNext]_vars

\* ------------------------- PerceptSessions: the titration script (lines 77-192)
\* A BrainSenseLfp entry and an LfpData item are mappings, or something else
\* (a number, a string, null), which has no .get.  A key that is absent from a
\* mapping is the empty cell <<>>; Left and Right are absent or mappings.
Entry(items) == [kind |-> "mapping", LfpData |-> items]
NotAMapping == [kind |-> "other", LfpData |-> <<>>]
Hemi(lfp, ma) == [present |-> TRUE, LFP |-> lfp, mA |-> ma]
NoHemi == [present |-> FALSE, LFP |-> NaN, mA |-> NaN]
Item(ticks, left, right) ==
  [kind |-> "mapping", TicksInMs |-> ticks, Left |-> left, Right |-> right]
BadItem == [kind |-> "other", TicksInMs |-> NaN, Left |-> NoHemi, Right |-> NoHemi]

\* len(lfp_data) < 2
InsufficientDataOffByOne(lfp_data) == Len(lfp_data) <= 2

InsufficientData(lfp_data) == Len(lfp_data) < 2

\* item.get('TicksInMs', 0)
Ticks(item) == IF item.TicksInMs = <<>> THEN 0 ELSE item.TicksInMs[1]

\* the position of the first item that is no mapping, or 0
FirstBad(lfp_data) ==
  IF \E k \in 1..Len(lfp_data) : lfp_data[k].kind # "mapping"
  THEN CHOOSE k \in 1..Len(lfp_data) :
         /\ lfp_data[k].kind # "mapping"
         /\ \A j \in 1..(k - 1) : lfp_data[j].kind = "mapping"
  ELSE 0

\* the body of: for item in lfp_data, over the first n items
BuiltLists(lfp_data, n) ==
  /\ timestamps' = [k \in 1..n |-> Ticks(lfp_data[k])]
  /\ left_lfp_values' = [k \in 1..n |-> lfp_data[k].Left.LFP]
  /\ left_amp_values' = [k \in 1..n |-> lfp_data[k].Left.mA]
  /\ right_lfp_values' = [k \in 1..n |-> lfp_data[k].Right.LFP]
  /\ right_amp_values' = [k \in 1..n |-> lfp_data[k].Right.mA]

\* [(t - min_time) / 1000 for t in timestamps], each as a fraction of a second
Min(S) == CHOOSE x \in S : \A y \in S : x <= y
Normalized(ts) ==
  [k \in 1..Len(ts) |-> [num |-> ts[k] - Min(Range(ts)), den |-> 1000]]

\* -- inputs
GoodItem(k) == Item(Num(1000 * k), Hemi(Num(k), Num(1)), Hemi(Num(2 * k), Num(2)))

\* the shapes a session can have: no mapping, no samples, one sample, two
\* samples, two samples of which the second is no mapping
SessionShapes ==
  { NotAMapping,
    Entry(<<>>),
    Entry(<<GoodItem(1)>>),
    Entry(<<GoodItem(2), GoodItem(1)>>),
    Entry(<<GoodItem(1), BadItem>>) }

\* one session of 2..MaxSamples samples whose Left column takes every value
\* (missing hemisphere, missing LFP, 0..MaxVal); the Right column is the Left
\* column rotated by one sample
LeftOptions == {NoHemi} \cup {Hemi(v, Num(7)) : v \in Opt(0..MaxVal)}
RichSession(lefts) ==
  Entry([k \in 1..Len(lefts) |->
           Item(IF k = 2 THEN NaN ELSE Num(500 * (Len(lefts) - k) + 250),
                lefts[k],
                lefts[(k % Len(lefts)) + 1])])

\* the spec's MAD example as the Left column of a session
ExampleSession ==
  RichSession([k \in 1..6 |-> Hemi(Num(<<1, 2, 3, 100, 4, 5>>[k]), Num(7))])

TitrationInputs ==
  SeqsUpTo(SessionShapes, MaxSessions)
  \cup {<<RichSession(l)>> : l \in {m \in SeqsUpTo(LeftOptions, MaxSamples) : Len(m) >= 2}}
  \cup {<<ExampleSession>>}

TitInit ==
  /\ brain_sense_lfp_data \in TitrationInputs
  /\ pc = "load"
  /\ i = 0
  /\ NoLists
  /\ saved = <<>>
  /\ printed = <<>>
  /\ error = "none"
  /\ FilterIdle
  /\ SanIdle
  /\ TrendIdle

\* if not brain_sense_lfp_data: raise ValueError(...)
CheckData ==
  /\ pc = "load"
  /\ IF brain_sense_lfp_data = <<>>
     THEN pc' = "raised" /\ error' = "ValueError"
     ELSE pc' = "loop" /\ error' = error
  /\ UNCHANGED <<brain_sense_lfp_data, i, saved, printed, timestamps_in_seconds>>
  /\ UNCHANGED listVars
  /\ UNCHANGED cleanedVars
  /\ UNCHANGED filterVars
  /\ UNCHANGED sanVars
  /\ UNCHANGED trendVars

\* the session has fewer than two samples: report it and continue
SkipSession ==
  /\ pc = "loop"
  /\ i < Len(brain_sense_lfp_data)
  /\ LET entry == brain_sense_lfp_data[i + 1]
     IN /\ entry.kind = "mapping"
        /\ InsufficientData(entry.LfpData)
  /\ printed' = Append(printed, i + 1)
  /\ i' = i + 1
  /\ UNCHANGED <<brain_sense_lfp_data, pc, saved, error, timestamps_in_seconds>>
  /\ UNCHANGED listVars
  /\ UNCHANGED cleanedVars
  /\ UNCHANGED filterVars
  /\ UNCHANGED sanVars
  /\ UNCHANGED trendVars

\* entry.get or item.get on something that is no mapping: AttributeError, which
\* nothing catches; the lists hold the samples read before it
RaiseMalformed ==
  /\ pc = "loop"
  /\ i < Len(brain_sense_lfp_data)
  /\ LET entry == brain_sense_lfp_data[i + 1]
     IN \/ /\ entry.kind # "mapping"
           /\ UNCHANGED listVars
        \/ /\ entry.kind = "mapping"
           /\ ~InsufficientData(entry.LfpData)
           /\ FirstBad(entry.LfpData) # 0
           /\ BuiltLists(entry.LfpData, FirstBad(entry.LfpData) - 1)
  /\ pc' = "raised"
  /\ error' = "AttributeError"
  /\ UNCHANGED <<brain_sense_lfp_data, i, saved, printed, timestamps_in_seconds>>
  /\ UNCHANGED cleanedVars
  /\ UNCHANGED filterVars
  /\ UNCHANGED sanVars
  /\ UNCHANGED trendVars

\* the five lists of the session, one element per sample
BuildLists ==
  /\ pc = "loop"
  /\ i < Len(brain_sense_lfp_data)
  /\ LET entry == brain_sense_lfp_data[i + 1]
     IN /\ entry.kind = "mapping"
        /\ ~InsufficientData(entry.LfpData)
        /\ FirstBad(entry.LfpData) = 0
        /\ BuiltLists(entry.LfpData, Len(entry.LfpData))
  /\ pc' = "built"
  /\ UNCHANGED <<brain_sense_lfp_data, i, saved, printed, error, timestamps_in_seconds>>
  /\ UNCHANGED cleanedVars
  /\ UNCHANGED filterVars
  /\ UNCHANGED sanVars
  /\ UNCHANGED trendVars

\* left_lfp_cleaned = remove_outliers(left_lfp_values), and the same on the right
RemoveOutliers ==
  /\ pc = "built"
  /\ left_lfp_cleaned' = remove_outliers(left_lfp_values)
  /\ right_lfp_cleaned' = remove_outliers(right_lfp_values)
  /\ pc' = "cleaned"
  /\ UNCHANGED <<brain_sense_lfp_data, i, saved, printed, error, timestamps_in_seconds>>
  /\ UNCHANGED listVars
  /\ UNCHANGED filterVars
  /\ UNCHANGED sanVars
  /\ UNCHANGED trendVars

\* timestamps to seconds, the three plots, savefig to PNG and SVG, the report
PlotAndSave ==
  /\ pc = "cleaned"
  /\ timestamps_in_seconds' = Normalized(timestamps)
  /\ saved' = Append(saved, i + 1)
  /\ i' = i + 1
  /\ pc' = "loop"
  /\ UNCHANGED <<brain_sense_lfp_data, printed, error>>
  /\ UNCHANGED listVars
  /\ UNCHANGED cleanedVars
  /\ UNCHANGED filterVars
  /\ UNCHANGED sanVars
  /\ UNCHANGED trendVars

\* the for loop is exhausted: the script ends
EndOfScript ==
  /\ pc = "loop"
  /\ i = Len(brain_sense_lfp_data)
  /\ pc' = "done"
  /\ UNCHANGED <<brain_sense_lfp_data, i, saved, printed, error, timestamps_in_seconds>>
  /\ UNCHANGED listVars
  /\ UNCHANGED cleanedVars
  /\ UNCHANGED filterVars
  /\ UNCHANGED sanVars
  /\ UNCHANGED trendVars

TitNext ==
  \/ CheckData
  \/ SkipSession
  \/ RaiseMalformed
  \/ BuildLists
  \/ RemoveOutliers
  \/ PlotAndSave
  \/ EndOfScript

SpecTitration == TitInit /\ [][TitNext]_vars

\* the interpreter runs the script statement after statement until it ends
FairSpecTitration == TitInit /\ [][TitNext]_vars /\ WF_vars(TitNext)

\* ------------------------------------------------ aDBS_analyzer (trend logs)
\* The trend logs of a hemisphere: the key is absent, or a mapping from bucket
\* keys to lists of entries, kept as the sequence of its buckets in document
\* order.  DateTime is an instant in whole hours: the ISO strings of one export
\* sort as their instants do; timedelta(hours=h) is h of that unit.
Logs(buckets) == [present |-> TRUE, buckets |-> buckets]
LogEntry(t, v, a) == [DateTime |-> t, LFP |-> Num(v), AmplitudeInMilliAmps |-> a]

\* for timestamp, values in logs.items(): for entry in values: records.append
RECURSIVE Flatten(_)
Flatten(buckets) ==
  IF buckets = <<>> THEN <<>>
  ELSE [k \in 1..Len(Head(buckets)) |->
          [DateTime |-> Head(buckets)[k].DateTime,
           LFP |-> Head(buckets)[k].LFP,
           Amplitude |-> Head(buckets)[k].AmplitudeInMilliAmps]]
       \o Flatten(Tail(buckets))

\* sort_values("DateTime") with the default quicksort, which is not stable:
\* every arrangement of the rows by ascending DateTime, rows of one DateTime in
\* any order
RECURSIVE Arrangements(_, _)
Arrangements(records, left) ==
  IF left = {} THEN {<<>>}
  ELSE LET first == {k \in left :
                       \A j \in left : records[k].DateTime <= records[j].DateTime}
       IN UNION {{<<records[k]>> \o rest : rest \in Arrangements(records, left \ {k})} :
                 k \in first}

SortValues(records) == Arrangements(records, 1..Len(records))

Max(S) == CHOOSE x \in S : \A y \in S : y <= x

\* latest_time = df["DateTime"].max(); cutoff_time = latest_time - timedelta(..)
Cutoff(df, hours) == Max({df[k].DateTime : k \in 1..Len(df)}) - hours

\* (a window that leaves out the record at the cutoff)
TimeFilterExclusive(df, hours) ==
  LET cutoff_time == Cutoff(df, hours)
      Recent(row) == row.DateTime > cutoff_time
  IN SelectSeq(df, Recent)

\* (a pipeline that removes the outliers of the whole frame before it windows)
OutliersThenTimeFilter(df, hours) ==
  LET kept == aDBS_remove_outliers(df)
      cutoff_time == Cutoff(df, hours)
      Recent(row) == row.DateTime >= cutoff_time
  IN SelectSeq(kept, Recent)

\* df[df["DateTime"] >= cutoff_time]
TimeFilter(df, hours) ==
  LET cutoff_time == Cutoff(df, hours)
      Recent(row) == row.DateTime >= cutoff_time
  IN SelectSeq(df, Recent)

\* -- Groups.Final: a group is [ActiveGroup, SensingChannel]; ActiveGroup is
\* TRUE, FALSE or "absent"; a channel is [HemisphereLocation, Upper, Lower]
\* with the two thresholds as cells, <<>> when the field is missing
Channel(h, upper, lower) ==
  [HemisphereLocation |-> h, UpperLfpThreshold |-> upper, LowerLfpThreshold |-> lower]
Group(active, channels) == [ActiveGroup |-> active, SensingChannel |-> channels]

\* program.get("ActiveGroup", False)
IsActive(program) == program.ActiveGroup = "true"

\* the inner loop: the first setting of the hemisphere, as <<found, pair>>
RECURSIVE ScanChannels(_, _)
ScanChannels(settings, h) ==
  IF settings = <<>> THEN [found |-> FALSE, pair |-> None2]
  ELSE IF Head(settings).HemisphereLocation = h
       THEN [found |-> TRUE,
             pair |-> <<Head(settings).UpperLfpThreshold,
                        Head(settings).LowerLfpThreshold>>]
       ELSE ScanChannels(Tail(settings), h)

\* (a resolver that stops at the first active group)
RECURSIVE ScanFirstActiveOnly(_, _)
ScanFirstActiveOnly(programs, h) ==
  IF programs = <<>> THEN None2
  ELSE IF IsActive(Head(programs))
       THEN ScanChannels(Head(programs).SensingChannel, h).pair
       ELSE ScanFirstActiveOnly(Tail(programs), h)

\* the outer loop over data.get("Groups", {}).get("Final", [])
RECURSIVE ScanPrograms(_, _)
ScanPrograms(programs, h) ==
  IF programs = <<>> THEN None2
  ELSE LET hit == IF IsActive(Head(programs))
                  THEN ScanChannels(Head(programs).SensingChannel, h)
                  ELSE [found |-> FALSE, pair |-> None2]
       IN IF hit.found THEN hit.pair ELSE ScanPrograms(Tail(programs), h)

extract_lfp_thresholds(d, h) == ScanPrograms(d.Final, h)

\* -- inputs
\* entries in chronological order: DateTime never decreases along the sequence
RECURSIVE TimeLines(_)
TimeLines(n) ==
  IF n = 0 THEN {<<>>}
  ELSE UNION {{Append(tl, t) : t \in (IF tl = <<>> THEN 0 ELSE tl[Len(tl)])..MaxTime} :
              tl \in TimeLines(n - 1)}

Reverse(s) == [k \in 1..Len(s) |-> s[Len(s) + 1 - k]]

\* the entries of a hemisphere, two to a bucket
Bucketed(entries) ==
  [b \in 1..((Len(entries) + 1) \div 2) |->
     SubSeq(entries, 2 * b - 1, IF 2 * b <= Len(entries) THEN 2 * b ELSE Len(entries))]

EntriesOf(tl, vs) == [k \in 1..Len(tl) |-> LogEntry(tl[k], vs[k], 10 + k)]

\* every hemisphere log of at most MaxRecords entries in chronological order
RichLogs ==
  UNION {{Logs(Bucketed(EntriesOf(tl, vs))) :
            tl \in TimeLines(n), vs \in [1..n -> 0..MaxLfp]} :
         n \in 0..MaxRecords}

\* entries at t0, t0+1h, t0+5h and t0+30h, for a window of 24 hours; an old
\* entry before three recent ones the last of which stands out; and both with
\* the latest entry first
ExampleLogs ==
  { Logs(Bucketed(EntriesOf(<<0, 1, 5, 30>>, <<1, 0, 1, 0>>))),
    Logs(Bucketed(EntriesOf(<<0, 1, 1, 1>>, <<0, 0, 0, 1>>))),
    Logs(Bucketed(Reverse(EntriesOf(<<0, 1, 5, 30>>, <<1, 0, 1, 0>>)))),
    Logs(Bucketed(Reverse(EntriesOf(<<0, 1, 1, 1>>, <<0, 0, 0, 1>>)))),
    Logs(Bucketed(Reverse(EntriesOf(<<0, 1, 2>>, <<0, 1, 0>>)))) }

OneRecordLogs == Logs(<<<<LogEntry(1, 0, 7)>>>>)
SmallLogs == {NoLogs, Logs(<<>>), Logs(<<<<>>>>), OneRecordLogs}

\* channel c of group g: its thresholds name it, and one of them is missing
\* for two channels out of three
ChannelAt(g, c, h) ==
  Channel(h,
          IF (g + c) % 3 = 0 THEN NaN ELSE Num(10 * g + c),
          IF (g + c) % 3 = 1 THEN NaN ELSE Num(100 + 10 * g + c))

GroupAt(g, active, hs) ==
  Group(active, [c \in 1..Len(hs) |-> ChannelAt(g, c, hs[c])])

Hemispheres == {"HemisphereLocationDef.Left", "HemisphereLocationDef.Right"}

RichGroups ==
  {[g \in 1..Len(as) |-> GroupAt(g, as[g][1], as[g][2])] :
     as \in SeqsUpTo({"true", "false"} \X SeqsUpTo(Hemispheres, MaxChannels), MaxGroups)}

\* the threshold example of the spec, a group without the ActiveGroup key, and
\* a group with two channels of one hemisphere
ExampleGroups ==
  { << Group("false", <<Channel("HemisphereLocationDef.Right", Num(70), Num(30))>>),
       Group("true", <<Channel("HemisphereLocationDef.Left", Num(80), Num(20))>>) >>,
    << Group("absent", <<Channel("HemisphereLocationDef.Left", Num(1), Num(2))>>),
       Group("true", <<Channel("HemisphereLocationDef.Left", Num(80), Num(20))>>) >>,
    << Group("true", <<Channel("HemisphereLocationDef.Right", Num(70), Num(30)),
                       Channel("HemisphereLocationDef.Left", Num(81), NaN),
                       Channel("HemisphereLocationDef.Left", Num(82), Num(22))>>) >> }

\* a document and the time filter the user enters for it
TrendInputs ==
  {<<[Left |-> l, Right |-> OneRecordLogs, Final |-> <<>>], h>> :
     l \in RichLogs \cup ExampleLogs, h \in 0..MaxHours}
  \cup {<<[Left |-> l, Right |-> OneRecordLogs, Final |-> <<>>], 24>> :
          l \in ExampleLogs}
  \cup {<<[Left |-> l, Right |-> r, Final |-> <<>>], 0>> :
          l \in SmallLogs, r \in SmallLogs}
  \cup {<<[Left |-> OneRecordLogs, Right |-> OneRecordLogs, Final |-> f], 0>> :
          f \in RichGroups \cup ExampleGroups}

TrendInit ==
  /\ \E input \in TrendInputs :
       /\ data = input[1]
       /\ time_filter_hours = input[2]
  /\ main_pc = "extract"
  /\ TrendFresh
  /\ FilterIdle
  /\ SanIdle
  /\ TitIdle

\* logs = ...get(f"HemisphereLocationDef.{hemisphere}", {})
HemisphereLogs == IF hemisphere = "Left" THEN data.Left ELSE data.Right

\* pd.DataFrame(records).sort_values("DateTime").reset_index(drop=True)
BuildFrame ==
  /\ main_pc = "extract"
  /\ step = "build"
  /\ Flatten(HemisphereLogs.buckets) # <<>>
  /\ df_sorted' \in SortValues(Flatten(HemisphereLogs.buckets))
  /\ step' = "window"
  /\ UNCHANGED <<data, time_filter_hours, main_pc, hemisphere, df_windowed,
                 df_left, df_right, thresholds_left, thresholds_right, trend_error>>
  /\ UNCHANGED filterVars
  /\ UNCHANGED sanVars
  /\ UNCHANGED titVars

\* no records: the frame has no DateTime column and sort_values raises KeyError
RaiseKeyError ==
  /\ main_pc = "extract"
  /\ step = "build"
  /\ Flatten(HemisphereLogs.buckets) = <<>>
  /\ main_pc' = "raised"
  /\ trend_error' = "KeyError"
  /\ UNCHANGED <<data, time_filter_hours, hemisphere, step, df_sorted, df_windowed,
                 df_left, df_right, thresholds_left, thresholds_right>>
  /\ UNCHANGED filterVars
  /\ UNCHANGED sanVars
  /\ UNCHANGED titVars

\* # Apply time filtering
ApplyTimeFilter ==
  /\ main_pc = "extract"
  /\ step = "window"
  /\ df_windowed' = TimeFilter(df_sorted, time_filter_hours)
  /\ step' = "outliers"
  /\ UNCHANGED <<data, time_filter_hours, main_pc, hemisphere, df_sorted,
                 df_left, df_right, thresholds_left, thresholds_right, trend_error>>
  /\ UNCHANGED filterVars
  /\ UNCHANGED sanVars
  /\ UNCHANGED titVars

\* # Remove outliers from LFP data; return df
RemoveOutliersAndReturn ==
  /\ main_pc = "extract"
  /\ step = "outliers"
  /\ IF hemisphere = "Left"
     THEN /\ df_left' = aDBS_remove_outliers(df_windowed)
          /\ hemisphere' = "Right"
          /\ UNCHANGED <<df_right, main_pc>>
     ELSE /\ df_right' = aDBS_remove_outliers(df_windowed)
          /\ main_pc' = "thresholds"
          /\ UNCHANGED <<df_left, hemisphere>>
  /\ step' = "build"
  /\ UNCHANGED <<data, time_filter_hours, df_sorted, df_windowed,
                 thresholds_left, thresholds_right, trend_error>>
  /\ UNCHANGED filterVars
  /\ UNCHANGED sanVars
  /\ UNCHANGED titVars

\* the two calls of extract_lfp_thresholds in main()
ExtractThresholds ==
  /\ main_pc = "thresholds"
  /\ thresholds_left' = extract_lfp_thresholds(data, "HemisphereLocationDef.Left")
  /\ thresholds_right' = extract_lfp_thresholds(data, "HemisphereLocationDef.Right")
  /\ main_pc' = "plot"
  /\ UNCHANGED <<data, time_filter_hours, hemisphere, step, df_sorted, df_windowed,
                 df_left, df_right, trend_error>>
  /\ UNCHANGED filterVars
  /\ UNCHANGED sanVars
  /\ UNCHANGED titVars

\* plot_lfp_amplitude: the frames and thresholds go to the renderer
Plot ==
  /\ main_pc = "plot"
  /\ main_pc' = "done"
  /\ UNCHANGED <<data, time_filter_hours, hemisphere, step, df_sorted, df_windowed,
                 df_left, df_right, thresholds_left, thresholds_right, trend_error>>
  /\ UNCHANGED filterVars
  /\ UNCHANGED sanVars
  /\ UNCHANGED titVars

TrendNext ==
  \/ BuildFrame
  \/ RaiseKeyError
  \/ ApplyTimeFilter
  \/ RemoveOutliersAndReturn
  \/ ExtractThresholds
  \/ Plot

SpecTrend == TrendInit /\ [][TrendNext]_vars

\* ================================================================ claims
\* Order statistics as the claims state them: on the list put in ascending
\* order by insertion.
RECURSIVE Insert(_, _)
Insert(x, s) ==
  IF s = <<>> THEN <<x>>
  ELSE IF x <= Head(s) THEN <<x>> \o s
       ELSE <<Head(s)>> \o Insert(x, Tail(s))

RECURSIVE Ascending(_)
Ascending(s) == IF s = <<>> THEN <<>> ELSE Insert(Head(s), Ascending(Tail(s)))

KthSmallest(nums, k) == Ascending(nums)[k]

\* median of a non-empty list, times 2
ClaimMedian2(nums) ==
  LET n == Len(nums)
  IN IF n % 2 = 1 THEN 2 * KthSmallest(nums, (n + 1) \div 2)
     ELSE KthSmallest(nums, n \div 2) + KthSmallest(nums, n \div 2 + 1)

\* |value - median| / (1.4826 * MAD) >= threshold for the number at k of col,
\* MAD replaced by 1e-6 when it is exactly zero
ClaimFlagged(col, k) ==
  LET nums == DropNaN(col)
      med2 == ClaimMedian2(nums)
      mad4 == ClaimMedian2([j \in 1..Len(nums) |-> Abs(2 * nums[j] - med2)])
      dev2 == Abs(2 * col[k][1] - med2)
  IN IF mad4 = 0 THEN dev2 * ZDen >= CeilDiv(2 * Threshold * ZNum, EpsDen)
     ELSE 2 * ZDen * dev2 >= Threshold * ZNum * mad4

\* linearly interpolated quantile num/4 of a non-empty list, times 4
ClaimQuantile4(nums, num) ==
  LET n == Len(nums)
      lo == ((n - 1) * num) \div 4
      r == ((n - 1) * num) % 4
      a == KthSmallest(nums, lo + 1)
      b == KthSmallest(nums, IF lo + 2 <= n THEN lo + 2 ELSE n)
  IN 4 * a + r * (b - a)

\* Q1 - 1.5*IQR <= v <= Q3 + 1.5*IQR for the row's value, quartiles over col
ClaimInBounds(col, cell) ==
  /\ ~IsNaN(cell)
  /\ LET nums == DropNaN(col)
         q1 == ClaimQuantile4(nums, 1)
         q3 == ClaimQuantile4(nums, 3)
     IN /\ 8 * cell[1] >= 2 * q1 - 3 * (q3 - q1)
        /\ 8 * cell[1] <= 2 * q3 + 3 * (q3 - q1)

\* s is t with some elements left out, order kept
RECURSIVE IsSubSeq(_, _)
IsSubSeq(s, t) ==
  IF s = <<>> THEN TRUE
  ELSE IF t = <<>> THEN FALSE
  ELSE IF Head(s) = Head(t) THEN IsSubSeq(Tail(s), Tail(t))
  ELSE IsSubSeq(s, Tail(t))

\* C3: the IQR filter returns exactly the rows whose value lies within
\* [Q1 - 1.5*IQR, Q3 + 1.5*IQR] (bounds inclusive), in their original order and
\* with DateTime and Amplitude untouched; a single value is kept and
\* [1,2,3,4,5,100] yields the five rows 1..5.
C3_IqrKeepsExactlyInBounds ==
  (strategy = "iqr" /\ passes # <<>>) =>
    LET df == Frame(series)
        out == passes[1]
    IN /\ IsSubSeq(out, df)
       /\ \A k \in 1..Len(df) :
            (df[k] \in Range(out)) <=> ClaimInBounds(series, df[k].LFP)
       /\ Len(out) = Cardinality({k \in 1..Len(df) : ClaimInBounds(series, df[k].LFP)})
       /\ (Len(series) = 1 /\ ~IsNaN(series[1]) => out = df)
       /\ (series = <<Num(1), Num(2), Num(3), Num(4), Num(5), Num(100)>>
             => Column(out) = <<Num(1), Num(2), Num(3), Num(4), Num(5)>>)

\* the first IQR pass kept some rows and removed a row that holds a number
C3_Witness ==
  /\ strategy = "iqr"
  /\ passes # <<>>
  /\ passes[1] # <<>>
  /\ \E k \in 1..Len(series) :
       ~IsNaN(series[k]) /\ Frame(series)[k] \notin Range(passes[1])

\* C7 as stated: applying either filter to its own output changes nothing.
C7_Idempotent == Len(passes) >= 2 => passes[2] = passes[1]

\* the two halves of C7 as stated, one per filter
C7_MadIdempotent == (strategy = "mad" /\ Len(passes) >= 2) => passes[2] = passes[1]
C7_IqrIdempotent == (strategy = "iqr" /\ Len(passes) >= 2) => passes[2] = passes[1]

\* C7 amended: a series none of whose values lies outside the threshold (MAD) or
\* the fences (IQR) computed on that series is a fixed point of the filter, and
\* an application of a filter to its own output never restores or alters a
\* value: it only masks (MAD) or removes (IQR) further ones.
C7_FixedPointAndShrinking ==
  \A p \in 1..Len(passes) :
    LET in == PassInput(p)
        out == passes[p]
    IN IF strategy = "mad"
       THEN /\ Len(out) = Len(in)
            /\ \A k \in 1..Len(in) : out[k] \in {in[k], NaN}
            /\ (\A k \in 1..Len(in) : IsNaN(in[k]) \/ ~ClaimFlagged(in, k))
                 => out = in
       ELSE /\ IsSubSeq(out, in)
            /\ (\A k \in 1..Len(in) : ClaimInBounds(Column(in), in[k].LFP))
                 => out = in

\* a first pass that flagged a value and a second pass, on its output, that
\* found nothing more to flag
C7_Witness ==
  /\ Len(passes) >= 2
  /\ passes[1] # PassInput(1)
  /\ passes[2] = passes[1]
  /\ \E k \in 1..Len(passes[2]) :
       IF strategy = "mad" THEN ~IsNaN(passes[2][k]) ELSE TRUE

\* ---- C1
PathKey(k) == [key |-> k, idx |-> 0]
PathIdx(n) == [key |-> "", idx |-> n]

\* every node of a tree as <<path from the root, label>>; the label of a mapping
\* is its key sequence, of a sequence its length, of a scalar its value
RECURSIVE Nodes(_, _)
Nodes(t, path) ==
  {<<path, [kind |-> t.kind, val |-> t.val, keys |-> t.keys, len |-> Len(t.items)]>>}
  \cup UNION {Nodes(t.items[k],
                    Append(path, IF t.kind = "dict" THEN PathKey(t.keys[k])
                                 ELSE PathIdx(k))) : k \in 1..Len(t.items)}

NotExcluded(k) == k \notin {"SignalFrequencies", "SignalPsdValues"}
KeptKeys(keys) == SelectSeq(keys, NotExcluded)

\* the nodes the claim expects: those reached without passing an excluded key,
\* a mapping keeping its other keys in order, everything else as it was
ExpectedNodes(t) ==
  {<<n[1], [kind |-> n[2].kind, val |-> n[2].val, keys |-> KeptKeys(n[2].keys),
            len |-> IF n[2].kind = "dict" THEN Len(KeptKeys(n[2].keys)) ELSE n[2].len]>> :
     n \in {m \in Nodes(t, <<>>) : \A j \in 1..Len(m[1]) : NotExcluded(m[1][j].key)}}

\* C1: every cleaned session contains neither SignalFrequencies nor
\* SignalPsdValues at any depth and is otherwise the input session: the other
\* keys in their order, every sequence with its length and element order, every
\* scalar unchanged.
C1_SanitizedTree ==
  /\ Len(sessions_cleaned) <= Len(GroupHistory)
  /\ \A j \in 1..Len(sessions_cleaned) :
       LET out == Nodes(sessions_cleaned[j], <<>>)
       IN /\ \A n \in out : /\ \A q \in 1..Len(n[1]) : NotExcluded(n[1][q].key)
                            /\ \A q \in 1..Len(n[2].keys) : NotExcluded(n[2].keys[q])
          /\ out = ExpectedNodes(GroupHistory[j])

\* a session with an excluded key under a sequence under a mapping was cleaned
C1_Witness ==
  \E j \in 1..Len(sessions_cleaned) :
    /\ sessions_cleaned[j] # GroupHistory[j]
    /\ \E n \in Nodes(GroupHistory[j], <<>>) :
         /\ Len(n[1]) = 3
         /\ n[1][1].key = "a"
         /\ n[1][2].idx = 1
         /\ ~NotExcluded(n[1][3].key)

\* ---- C2
\* what the claim expects of the filtered column: missing where the input is
\* missing or its robust Z-score reaches the threshold, the input value elsewhere
ClaimMadOutput(col, out) ==
  /\ Len(out) = Len(col)
  /\ \A k \in 1..Len(col) :
       /\ IsNaN(out[k]) <=> (IsNaN(col[k]) \/ ClaimFlagged(col, k))
       /\ ~IsNaN(out[k]) => out[k] = col[k]

\* C2: once a session is filtered, each cleaned column has the length of its
\* input, is missing exactly at the missing and the flagged positions and holds
\* the input value elsewhere, and timestamps and amplitudes are still those of
\* the samples: record k keeps its own timestamp.
C2_MadMasksInPlace ==
  pc = "cleaned" =>
    LET lfp_data == brain_sense_lfp_data[i + 1].LfpData
    IN /\ ClaimMadOutput(left_lfp_values, left_lfp_cleaned)
       /\ ClaimMadOutput(right_lfp_values, right_lfp_cleaned)
       /\ Len(timestamps) = Len(lfp_data)
       /\ Len(left_lfp_cleaned) = Len(lfp_data)
       /\ \A k \in 1..Len(lfp_data) :
            /\ timestamps[k] = (IF lfp_data[k].TicksInMs = <<>> THEN 0
                                ELSE lfp_data[k].TicksInMs[1])
            /\ left_lfp_values[k] = lfp_data[k].Left.LFP
            /\ left_amp_values[k] = lfp_data[k].Left.mA
            /\ right_amp_values[k] = lfp_data[k].Right.mA
       /\ (left_lfp_values = <<Num(1), Num(2), Num(3), Num(100), Num(4), Num(5)>>
            => left_lfp_cleaned = <<Num(1), Num(2), Num(3), NaN, Num(4), Num(5)>>)

\* a filtered session in which a value was flagged, a value was kept and a
\* value was missing from the start
C2_Witness ==
  /\ pc = "cleaned"
  /\ \E k \in 1..Len(left_lfp_values) :
       ~IsNaN(left_lfp_values[k]) /\ IsNaN(left_lfp_cleaned[k])
  /\ \E k \in 1..Len(left_lfp_values) : ~IsNaN(left_lfp_cleaned[k])
  /\ \E k \in 1..Len(left_lfp_values) : IsNaN(left_lfp_values[k])

\* ---- C8
WellFormed(doc) ==
  \A s \in 1..Len(doc) :
    /\ doc[s].kind = "mapping"
    /\ \A k \in 1..Len(doc[s].LfpData) : doc[s].LfpData[k].kind = "mapping"

\* the session numbers, in order, with at least two / fewer than two samples
RECURSIVE SessionsWhere(_, _, _)
SessionsWhere(doc, n, long) ==
  IF n = 0 THEN <<>>
  ELSE LET before == SessionsWhere(doc, n - 1, long)
       IN IF (Len(doc[n].LfpData) >= 2) = long THEN Append(before, n) ELSE before

\* C8: for a non-empty list of sessions, the loop ends, and by then every
\* session with fewer than two samples has been reported and has produced no
\* output and every session with at least two samples has produced its output,
\* in session order.
C8_ShortSkippedLongProcessed ==
  (WellFormed(brain_sense_lfp_data) /\ brain_sense_lfp_data # <<>>) =>
    <>(/\ pc = "done"
       /\ i = Len(brain_sense_lfp_data)
       /\ saved = SessionsWhere(brain_sense_lfp_data, Len(brain_sense_lfp_data), TRUE)
       /\ printed = SessionsWhere(brain_sense_lfp_data, Len(brain_sense_lfp_data), FALSE))

\* the script has ended after a short session, a processed one and a short one
C8_Witness ==
  /\ pc = "done"
  /\ saved = <<2>>
  /\ printed = <<1, 3>>

\* ---- C10
\* C10 as stated: a run that ends in the failure of a malformed document has
\* saved no session plot of that document.
C10_NoOutputBeforeFailure ==
  (pc = "raised" /\ error = "AttributeError") => saved = <<>>

\* ---- C4
ClaimLatest(df) ==
  CHOOSE t \in {df[k].DateTime : k \in 1..Len(df)} :
    \A k \in 1..Len(df) : df[k].DateTime <= t

\* the rows whose distance from the latest DateTime is at most the window
ClaimWindow(df, hours) ==
  LET Near(row) == ClaimLatest(df) - row.DateTime <= hours
  IN SelectSeq(df, Near)

\* C4: the time filtering keeps exactly the rows whose DateTime is at least the
\* latest DateTime minus the window, the cutoff included, in their order; a row
\* at the latest DateTime is always kept.
C4_WindowKeepsRecent ==
  (main_pc = "extract" /\ step = "outliers") =>
    /\ IsSubSeq(df_windowed, df_sorted)
    /\ \A k \in 1..Len(df_sorted) :
         (df_sorted[k] \in Range(df_windowed))
           <=> (ClaimLatest(df_sorted) - df_sorted[k].DateTime <= time_filter_hours)
    /\ Len(df_windowed) =
         Cardinality({k \in 1..Len(df_sorted) :
            ClaimLatest(df_sorted) - df_sorted[k].DateTime <= time_filter_hours})
    /\ \A k \in 1..Len(df_sorted) :
         df_sorted[k].DateTime = ClaimLatest(df_sorted)
           => df_sorted[k] \in Range(df_windowed)

\* a window that dropped a row and kept a row lying exactly at the cutoff,
\* before the latest one
C4_Witness ==
  /\ main_pc = "extract"
  /\ step = "outliers"
  /\ Len(df_windowed) < Len(df_sorted)
  /\ \E k \in 1..Len(df_windowed) :
       /\ df_windowed[k].DateTime = ClaimLatest(df_sorted) - time_filter_hours
       /\ df_windowed[k].DateTime < ClaimLatest(df_sorted)

\* ---- C5
ChannelsOf(programs, g, h) ==
  {c \in 1..Len(programs[g].SensingChannel) :
     programs[g].SensingChannel[c].HemisphereLocation = h}

ThresholdsAt(programs, g, c) ==
  <<programs[g].SensingChannel[c].UpperLfpThreshold,
    programs[g].SensingChannel[c].LowerLfpThreshold>>

Least(S) == CHOOSE x \in S : \A y \in S : x <= y

\* what C5 expects: only the first group flagged active is consulted
ClaimFirstActiveGroup(programs, h) ==
  LET active == {g \in 1..Len(programs) : programs[g].ActiveGroup = "true"}
  IN IF active = {} THEN None2
     ELSE IF ChannelsOf(programs, Least(active), h) = {} THEN None2
     ELSE ThresholdsAt(programs, Least(active),
                       Least(ChannelsOf(programs, Least(active), h)))

\* what the amended C5 expects: the first active group that has a channel of
\* the hemisphere is consulted
ClaimFirstMatchingActiveGroup(programs, h) ==
  LET matching == {g \in 1..Len(programs) :
                     /\ programs[g].ActiveGroup = "true"
                     /\ ChannelsOf(programs, g, h) # {}}
  IN IF matching = {} THEN None2
     ELSE ThresholdsAt(programs, Least(matching),
                       Least(ChannelsOf(programs, Least(matching), h)))

ThresholdsExtracted == main_pc \in {"plot", "done"}

\* C5 as stated: the thresholds are those of the first matching channel of the
\* first active group, and (absent, absent) when no group is active or that
\* group has no channel of the hemisphere, whatever later groups contain.
C5_FirstActiveGroupOnly ==
  ThresholdsExtracted =>
    /\ thresholds_left = ClaimFirstActiveGroup(data.Final, "HemisphereLocationDef.Left")
    /\ thresholds_right = ClaimFirstActiveGroup(data.Final, "HemisphereLocationDef.Right")

\* C5 amended: the thresholds are those of the first matching channel of the
\* first active group that has a channel of the hemisphere (each bound absent
\* when its field is missing), and (absent, absent) when no active group has
\* such a channel.
C5_FirstMatchingActiveGroup ==
  ThresholdsExtracted =>
    /\ thresholds_left =
         ClaimFirstMatchingActiveGroup(data.Final, "HemisphereLocationDef.Left")
    /\ thresholds_right =
         ClaimFirstMatchingActiveGroup(data.Final, "HemisphereLocationDef.Right")

\* thresholds were taken from a later active group, the first active group
\* having no Left channel
C5_Witness ==
  /\ ThresholdsExtracted
  /\ \E g \in 1..Len(data.Final) :
       /\ data.Final[g].ActiveGroup = "true"
       /\ ChannelsOf(data.Final, g, "HemisphereLocationDef.Left") = {}
       /\ \E g2 \in (g + 1)..Len(data.Final) :
            /\ data.Final[g2].ActiveGroup = "true"
            /\ ChannelsOf(data.Final, g2, "HemisphereLocationDef.Left") # {}
  /\ thresholds_left # None2

\* ---- C6
\* C6 as stated: asked for a hemisphere whose key the trend logs lack, the
\* extraction does not raise.
C6_MissingHemisphereDoesNotRaise ==
  ~HemisphereLogs.present => trend_error = "none"

\* ---- C9
ClaimIqr(df) ==
  LET Inside(row) == ClaimInBounds(Column(df), row.LFP)
  IN SelectSeq(df, Inside)

\* an extraction has just returned; its frame, and the sorted frame it built
JustReturned ==
  \/ main_pc = "extract" /\ hemisphere = "Right" /\ step = "build"
  \/ main_pc = "thresholds"

Returned == IF main_pc = "thresholds" THEN df_right ELSE df_left

\* C9 as stated: the returned series is the time window applied to the
\* outlier-filtered full series.
C9_OutliersBeforeWindow ==
  JustReturned =>
    Returned = ClaimWindow(ClaimIqr(df_sorted), time_filter_hours)

\* C9 amended: whenever the extraction returns, the returned series is the
\* outlier filter applied to the time-windowed series: the quartiles and fences
\* are computed over the rows inside the window only.
C9_WindowBeforeOutliers ==
  JustReturned =>
    Returned = ClaimIqr(ClaimWindow(df_sorted, time_filter_hours))

\* a returned frame that keeps a row which the fences of the full frame exclude
C9_Witness ==
  /\ JustReturned
  /\ Len(df_windowed) < Len(df_sorted)
  /\ \E k \in 1..Len(Returned) :
       ~ClaimInBounds(Column(df_sorted), Returned[k].LFP)

====
